---- MODULE Spec2Model ----
(***************************************************************************)
(* Model of simplescp.go: the connection acceptor (startServer,            *)
(* handleConn), the per-channel request router (handleNewChannel,          *)
(* handleSFTP), the exec handler (handleRequest) with its option parser,   *)
(* and the exit-status plumbing (sendExitStatusCode).                      *)
(***************************************************************************)
EXTENDS Integers, Sequences, FiniteSets, TLC

VARIABLES
    oneShot,    \* scpConfig.OneShot
    srvPc,      \* position of startServer: "accept", "handleConn", "stopped"
    conns,      \* connections accepted so far, in accept order
    chans,      \* channels handed to handleNewChannel, in dispatch order
    reqs,       \* requests taken by the routers, in dispatch order
    hs,         \* one handleRequest goroutine per entry of reqs
    crashed,    \* "no", or the function whose panic took the process down
    pTokens,    \* option parser run on its own: the tokens s[1:]
    pIdx,       \* option parser run on its own: tokens consumed so far
    pState,     \* option parser run on its own: parseOpts and opts
    eStatus     \* sendExitStatusCode run on its own: its status argument

vars == <<oneShot, srvPc, conns, chans, reqs, hs, crashed, pTokens, pIdx, pState,
          eStatus>>
srvVars == <<oneShot, srvPc, conns, chans, reqs, hs, crashed>>
parseVars == <<pTokens, pIdx, pState>>

(***************************************************************************)
(* Bounds                                                                  *)
(***************************************************************************)
MaxTokens == 3
MaxConns == 1
MaxChannels == 2
MaxRequests == 2
\* The largest value of sendExitStatusCode's "status uint8".
MaxStatus == 255

(***************************************************************************)
(* Option parser (handleRequest, the loop over s[1:])                      *)
(***************************************************************************)
Flags == {"-f", "-t", "-d", "-p", "-r", "-v"}
Tokens == Flags \cup {"--", "a", "b"}

scpOptions ==
    [To |-> FALSE, From |-> FALSE, TargetIsDir |-> FALSE, Recursive |-> FALSE,
     PreserveMode |-> FALSE, fileNames |-> <<>>]

ParseInit == [parseOpts |-> TRUE, opts |-> scpOptions]

\* ParseStep with the -p and -r cases setting each other's field.
ParseStepSwapsPR(st, elem) ==
    IF st.parseOpts
    THEN CASE elem = "-f" -> [st EXCEPT !.opts.From = TRUE]
           [] elem = "-t" -> [st EXCEPT !.opts.To = TRUE]
           [] elem = "-d" -> [st EXCEPT !.opts.TargetIsDir = TRUE]
           [] elem = "-p" -> [st EXCEPT !.opts.Recursive = TRUE]
           [] elem = "-r" -> [st EXCEPT !.opts.PreserveMode = TRUE]
           [] elem = "-v" -> st
           [] elem = "--" -> [st EXCEPT !.parseOpts = FALSE]
           [] OTHER -> [st EXCEPT !.opts.fileNames = Append(@, elem)]
    ELSE st

\* ParseStep without the -v case: -v falls through to the default.
ParseStepNoVerbose(st, elem) ==
    IF st.parseOpts
    THEN CASE elem = "-f" -> [st EXCEPT !.opts.From = TRUE]
           [] elem = "-t" -> [st EXCEPT !.opts.To = TRUE]
           [] elem = "-d" -> [st EXCEPT !.opts.TargetIsDir = TRUE]
           [] elem = "-p" -> [st EXCEPT !.opts.PreserveMode = TRUE]
           [] elem = "-r" -> [st EXCEPT !.opts.Recursive = TRUE]
           [] elem = "--" -> [st EXCEPT !.parseOpts = FALSE]
           [] OTHER -> [st EXCEPT !.opts.fileNames = Append(@, elem)]
    ELSE st

\* One iteration of "for _, elem := range s[1:]".
ParseStep(st, elem) ==
    IF st.parseOpts
    THEN CASE elem = "-f" -> [st EXCEPT !.opts.From = TRUE]
           [] elem = "-t" -> [st EXCEPT !.opts.To = TRUE]
           [] elem = "-d" -> [st EXCEPT !.opts.TargetIsDir = TRUE]
           [] elem = "-p" -> [st EXCEPT !.opts.PreserveMode = TRUE]
           [] elem = "-r" -> [st EXCEPT !.opts.Recursive = TRUE]
           [] elem = "-v" -> st
           [] elem = "--" -> IF st.parseOpts
                             THEN [st EXCEPT !.parseOpts = FALSE]
                             ELSE [st EXCEPT !.opts.fileNames = Append(@, elem)]
           [] OTHER -> [st EXCEPT !.opts.fileNames = Append(@, elem)]
    ELSE st

RECURSIVE ParseFrom(_, _)
ParseFrom(st, toks) ==
    IF toks = <<>> THEN st ELSE ParseFrom(ParseStep(st, Head(toks)), Tail(toks))

\* The whole loop: the options handleRequest works with.
ParseTokens(toks) == ParseFrom(ParseInit, toks).opts

RECURSIVE SeqsUpTo(_, _)
SeqsUpTo(S, n) ==
    IF n = 0 THEN {<<>>}
    ELSE LET shorter == SeqsUpTo(S, n - 1)
         IN shorter \cup {Append(q, x) : q \in {p \in shorter : Len(p) = n - 1}, x \in S}

\* The parser on its own, one token per step.
ParseElem ==
    /\ pIdx < Len(pTokens)
    /\ pState' = ParseStep(pState, pTokens[pIdx + 1])
    /\ pIdx' = pIdx + 1
    /\ UNCHANGED <<pTokens, srvVars, eStatus>>

SrvIdle ==
    /\ oneShot = FALSE
    /\ srvPc = "accept"
    /\ conns = <<>>
    /\ chans = <<>>
    /\ reqs = <<>>
    /\ hs = <<>>
    /\ crashed = "no"

InitParse ==
    /\ pTokens \in SeqsUpTo(Tokens, MaxTokens)
    /\ pIdx = 0
    /\ pState = ParseInit
    /\ eStatus = 0
    /\ SrvIdle

NextParse == ParseElem

SpecParse == InitParse /\ [][NextParse]_vars

ParseDone == pIdx = Len(pTokens)

(***************************************************************************)
(* Requests and their payloads                                             *)
(***************************************************************************)
\* Command lines carried by exec requests (the text after the length prefix).
CmdLines ==
    {"", "'scp", "ls -t a", "scp a", "scp -f a", "scp -t a", "scp -t",
     "scp -t a b", "scp -f -t a", "scp -f -t"}

\* shlex.Split on those command lines: the tokens recovered and whether it
\* returned an error.
Split(text) ==
    CASE text = "" -> [words |-> <<>>, err |-> FALSE]
      [] text = "'scp" -> [words |-> <<>>, err |-> TRUE]
      [] text = "ls -t a" -> [words |-> <<"ls", "-t", "a">>, err |-> FALSE]
      [] text = "scp a" -> [words |-> <<"scp", "a">>, err |-> FALSE]
      [] text = "scp -f a" -> [words |-> <<"scp", "-f", "a">>, err |-> FALSE]
      [] text = "scp -t a" -> [words |-> <<"scp", "-t", "a">>, err |-> FALSE]
      [] text = "scp -t" -> [words |-> <<"scp", "-t">>, err |-> FALSE]
      [] text = "scp -t a b" -> [words |-> <<"scp", "-t", "a", "b">>, err |-> FALSE]
      [] text = "scp -f -t a" -> [words |-> <<"scp", "-f", "-t", "a">>, err |-> FALSE]
      [] text = "scp -f -t" -> [words |-> <<"scp", "-f", "-t">>, err |-> FALSE]

\* A payload either holds the 4-byte length prefix and a text, or is shorter
\* than the prefix.
ShortPayload == [prefix |-> FALSE, text |-> ""]
ExecPayloads == {[prefix |-> TRUE, text |-> t] : t \in CmdLines} \cup {ShortPayload}
SubsystemPayloads == {[prefix |-> TRUE, text |-> t] : t \in {"sftp", "other"}} \cup {ShortPayload}
OtherTypes == {"pty-req"}

\* Outcomes of the engines the handlers call.
SourceResults == {"ok", "fail"}
SinkResults == {"ok", "fail"}
ServeResults == {"nil", "EOF", "error"}

(***************************************************************************)
(* Channel operations                                                      *)
(***************************************************************************)
\* An operation on a channel, as its caller performs it. A Close carries
\* whether an exit status was sent on the channel before it (afterExit), a
\* Reply whether Close was called on the channel before it (afterClose).
Event(op, by, ok, data) ==
    [op |-> op, by |-> by, ok |-> ok, data |-> data,
     afterExit |-> FALSE, afterClose |-> FALSE]

\* The buffer with the status in its first byte instead of its last.
exitStatusBufferLittle(status) == <<status, 0, 0, 0>>

\* sendExitStatusCode: the 4-byte buffer handed to SendRequest("exit-status").
exitStatusBuffer(status) == <<0, 0, 0, status>>

Snap(c, ev) ==
    [ev EXCEPT !.afterExit = ev.op = "close" /\ chans[c].nExit > 0,
               !.afterClose = ev.op = "reply" /\ chans[c].nClose > 0]

\* The channel after a handler's operation on it.
Counted(c, ev) ==
    [chans EXCEPT ![c].nExit = IF ev.op = "exit" THEN @ + 1 ELSE @,
                  ![c].nClose = IF ev.op = "close" THEN @ + 1 ELSE @]

\* The channel after an operation of its router.
Logged(c, ev) ==
    [chans EXCEPT ![c].log = Append(@, Snap(c, ev)),
                  ![c].nExit = IF ev.op = "exit" THEN @ + 1 ELSE @,
                  ![c].nClose = IF ev.op = "close" THEN @ + 1 ELSE @]

\* The handler after an operation on channel c.
Did(h, c, ev) == [h EXCEPT !.log = Append(@, Snap(c, ev))]

\* The operation a handler or router performs on its channel.
ChannelOp(op, by, ok, status) ==
    CASE op = "exit" -> Event("exit", by, TRUE, exitStatusBuffer(status))
      [] op = "reply" -> Event("reply", by, ok, <<>>)
      [] OTHER -> Event(op, by, TRUE, <<>>)

\* handleRequest, the rejection of a non-scp command, in order.
RejectTail == <<"reply", "write", "close">>
SinkTailCloseFirst == <<"close", "exit", "reply">>
\* handleRequest, the end of the sink branch, in order.
SinkTail == <<"exit", "close", "reply">>
\* handleSFTP after Serve has returned, in order.
SftpTail == <<"exit", "close">>

IsScpUnchecked(s) == Len(s) > 0
IsScp(s) == s[1] = "scp"
AmbiguousTargetOnlyMany(opts) == Len(opts.fileNames) > 1
AmbiguousTarget(opts) == Len(opts.fileNames) # 1
TakesSource(opts) == opts.From
TakesSink(opts) == opts.To
ServeStatus(res) == IF res = "nil" \/ res = "EOF" THEN 0 ELSE 1

Running == crashed = "no" /\ srvPc # "stopped"

(***************************************************************************)
(* startServer and handleConn                                              *)
(***************************************************************************)
Accept ==
    /\ Running
    /\ srvPc = "accept"
    /\ Len(conns) < MaxConns
    /\ conns' = Append(conns, [st |-> "handshake", closed |-> FALSE])
    /\ srvPc' = IF oneShot THEN "handleConn" ELSE "accept"
    /\ UNCHANGED <<oneShot, chans, reqs, hs, crashed, parseVars, eStatus>>

\* What handleConn's return means for startServer.
AfterHandleConn == IF oneShot THEN "stopped" ELSE srvPc

Handshake(k) ==
    /\ Running
    /\ conns[k].st = "handshake"
    /\ \E ok \in BOOLEAN :
         IF ok
         THEN /\ conns' = [conns EXCEPT ![k].st = "serving"]
              /\ UNCHANGED srvPc
         ELSE /\ conns' = [conns EXCEPT ![k].st = "done"]
              /\ srvPc' = AfterHandleConn
    /\ UNCHANGED <<oneShot, chans, reqs, hs, crashed, parseVars, eStatus>>

DispatchChannel(k) ==
    /\ Running
    /\ conns[k].st = "serving"
    /\ ~conns[k].closed
    /\ Len(chans) < MaxChannels
    /\ \E t \in {"session", "direct-tcpip"} :
         chans' = Append(chans, [conn |-> k, type |-> t, st |-> "spawned",
                                 log |-> <<>>, cur |-> 0, status |-> 0,
                                 nExit |-> 0, nClose |-> 0])
    /\ UNCHANGED <<oneShot, srvPc, conns, reqs, hs, crashed, parseVars, eStatus>>

\* The client goes away: the stream of new channels and every request stream end.
CloseConn(k) ==
    /\ Running
    /\ conns[k].st = "serving"
    /\ ~conns[k].closed
    /\ conns' = [conns EXCEPT ![k].closed = TRUE]
    /\ UNCHANGED <<oneShot, srvPc, chans, reqs, hs, crashed, parseVars, eStatus>>

HandleConnReturn(k) ==
    /\ Running
    /\ conns[k].st = "serving"
    /\ conns[k].closed
    /\ conns' = [conns EXCEPT ![k].st = "done"]
    /\ srvPc' = AfterHandleConn
    /\ UNCHANGED <<oneShot, chans, reqs, hs, crashed, parseVars, eStatus>>

(***************************************************************************)
(* handleNewChannel and handleSFTP                                         *)
(***************************************************************************)
\* HandleNewChannel without the test of the channel type.
HandleNewChannelAcceptsAll(c) ==
    /\ Running
    /\ chans[c].st = "spawned"
    /\ IF conns[chans[c].conn].closed
       THEN /\ crashed' = "handleNewChannel"
            /\ UNCHANGED chans
       ELSE /\ chans' = [chans EXCEPT ![c].st = "open"]
            /\ UNCHANGED crashed
    /\ UNCHANGED <<oneShot, srvPc, conns, reqs, hs, parseVars, eStatus>>

HandleNewChannel(c) ==
    /\ Running
    /\ chans[c].st = "spawned"
    /\ IF chans[c].type # "session"
       THEN /\ chans' = [chans EXCEPT ![c].st = "rejected"]
            /\ UNCHANGED crashed
       ELSE IF conns[chans[c].conn].closed
            THEN /\ crashed' = "handleNewChannel"
                 /\ UNCHANGED chans
            ELSE /\ chans' = [chans EXCEPT ![c].st = "open"]
                 /\ UNCHANGED crashed
    /\ UNCHANGED <<oneShot, srvPc, conns, reqs, hs, parseVars, eStatus>>

NoHandler == [pc |-> "none", i |-> 0, opts |-> scpOptions, ok |-> TRUE,
              statusCode |-> 0, srcErr |-> "none", sinkErr |-> "none", log |-> <<>>]

\* CanRoute for a router that calls handleRequest instead of starting it with
\* "go": it is back at the request stream only when its handlers have returned.
CanRouteAfterHandlers(c) ==
    /\ Running
    /\ chans[c].st = "open"
    /\ ~conns[chans[c].conn].closed
    /\ Len(reqs) < MaxRequests
    /\ \A r \in 1..Len(hs) : reqs[r].ch = c => hs[r].pc \in {"none", "done"}

CanRoute(c) ==
    /\ Running
    /\ chans[c].st = "open"
    /\ ~conns[chans[c].conn].closed
    /\ Len(reqs) < MaxRequests

NewReq(c, type, payload) == Append(reqs, [ch |-> c, type |-> type, payload |-> payload])

RouteExec(c) ==
    /\ CanRoute(c)
    /\ \E p \in ExecPayloads :
         /\ reqs' = NewReq(c, "exec", p)
         /\ hs' = Append(hs, [NoHandler EXCEPT !.pc = "start"])
    /\ UNCHANGED <<oneShot, srvPc, conns, chans, crashed, parseVars, eStatus>>

\* RouteShell answering the shell request like an env request.
RouteShellGranted(c) ==
    /\ CanRoute(c)
    /\ reqs' = NewReq(c, "shell", [prefix |-> TRUE, text |-> ""])
    /\ hs' = Append(hs, NoHandler)
    /\ chans' = Logged(c, ChannelOp("reply", Len(reqs) + 1, TRUE, 0))
    /\ UNCHANGED <<oneShot, srvPc, conns, crashed, parseVars, eStatus>>

RouteShell(c) ==
    /\ CanRoute(c)
    /\ reqs' = NewReq(c, "shell", [prefix |-> TRUE, text |-> ""])
    /\ hs' = Append(hs, NoHandler)
    /\ chans' = [chans EXCEPT ![c].log =
                    @ \o <<Snap(c, ChannelOp("write", Len(reqs) + 1, TRUE, 0)),
                           Snap(c, ChannelOp("reply", Len(reqs) + 1, FALSE, 0))>>]
    /\ UNCHANGED <<oneShot, srvPc, conns, crashed, parseVars, eStatus>>

RouteEnv(c) ==
    /\ CanRoute(c)
    /\ reqs' = NewReq(c, "env", [prefix |-> TRUE, text |-> ""])
    /\ hs' = Append(hs, NoHandler)
    /\ chans' = Logged(c, ChannelOp("reply", Len(reqs) + 1, TRUE, 0))
    /\ UNCHANGED <<oneShot, srvPc, conns, crashed, parseVars, eStatus>>

\* RouteSubsystem without the comparison of the subsystem's name: every named
\* subsystem is served by handleSFTP.
RouteSubsystemAnyName(c) ==
    /\ CanRoute(c)
    /\ \E p \in SubsystemPayloads :
         /\ reqs' = NewReq(c, "subsystem", p)
         /\ hs' = Append(hs, NoHandler)
         /\ IF ~p.prefix
            THEN /\ crashed' = "handleNewChannel"
                 /\ UNCHANGED chans
            ELSE /\ UNCHANGED crashed
                 /\ chans' = [chans EXCEPT ![c].st = "sftpNew", ![c].cur = Len(reqs) + 1]
    /\ UNCHANGED <<oneShot, srvPc, conns, parseVars, eStatus>>

RouteSubsystem(c) ==
    /\ CanRoute(c)
    /\ \E p \in SubsystemPayloads :
         /\ reqs' = NewReq(c, "subsystem", p)
         /\ hs' = Append(hs, NoHandler)
         /\ IF ~p.prefix
            THEN /\ crashed' = "handleNewChannel"
                 /\ UNCHANGED chans
            ELSE /\ UNCHANGED crashed
                 /\ IF p.text = "sftp"
                    THEN chans' = [chans EXCEPT ![c].st = "sftpNew", ![c].cur = Len(reqs) + 1]
                    ELSE chans' = Logged(c, ChannelOp("reply", Len(reqs) + 1, TRUE, 0))
    /\ UNCHANGED <<oneShot, srvPc, conns, parseVars, eStatus>>

RouteOther(c) ==
    /\ CanRoute(c)
    /\ \E t \in OtherTypes : reqs' = NewReq(c, t, [prefix |-> TRUE, text |-> ""])
    /\ hs' = Append(hs, NoHandler)
    /\ chans' = Logged(c, ChannelOp("reply", Len(reqs) + 1, TRUE, 0))
    /\ UNCHANGED <<oneShot, srvPc, conns, crashed, parseVars, eStatus>>

\* "for req := range requests" ends when the request stream is closed.
RouterExit(c) ==
    /\ Running
    /\ chans[c].st = "open"
    /\ conns[chans[c].conn].closed
    /\ chans' = [chans EXCEPT ![c].st = "routerDone"]
    /\ UNCHANGED <<oneShot, srvPc, conns, reqs, hs, crashed, parseVars, eStatus>>

SftpNewServer(c) ==
    /\ Running
    /\ chans[c].st = "sftpNew"
    /\ \E ok \in BOOLEAN :
         chans' = [chans EXCEPT ![c].st = IF ok THEN "sftpServe" ELSE "sftpReply"]
    /\ UNCHANGED <<oneShot, srvPc, conns, reqs, hs, crashed, parseVars, eStatus>>

SftpServe(c) ==
    /\ Running
    /\ chans[c].st = "sftpServe"
    /\ \E res \in ServeResults :
         chans' = [Logged(c, Event("served", chans[c].cur, TRUE, <<res>>))
                      EXCEPT ![c].st = "sftpTail1", ![c].status = ServeStatus(res)]
    /\ UNCHANGED <<oneShot, srvPc, conns, reqs, hs, crashed, parseVars, eStatus>>

SftpTailPos(c) ==
    CASE chans[c].st = "sftpTail1" -> 1
      [] chans[c].st = "sftpTail2" -> 2
      [] OTHER -> 0

SftpTailStep(c) ==
    /\ Running
    /\ SftpTailPos(c) > 0
    /\ chans' = [Logged(c, ChannelOp(SftpTail[SftpTailPos(c)], chans[c].cur,
                                     TRUE, chans[c].status))
                   EXCEPT ![c].st = IF SftpTailPos(c) = 1 THEN "sftpTail2" ELSE "sftpReply"]
    /\ UNCHANGED <<oneShot, srvPc, conns, reqs, hs, crashed, parseVars, eStatus>>

SftpReply(c) ==
    /\ Running
    /\ chans[c].st = "sftpReply"
    /\ chans' = [Logged(c, ChannelOp("reply", chans[c].cur, TRUE, 0))
                   EXCEPT ![c].st = "open"]
    /\ UNCHANGED <<oneShot, srvPc, conns, reqs, hs, crashed, parseVars, eStatus>>

(***************************************************************************)
(* handleRequest                                                           *)
(***************************************************************************)
\* "if opts.To": into the sink branch up to its first blocking call, or out.
SinkBegin(h, c, r) ==
    IF ~TakesSink(h.opts)
    THEN [h EXCEPT !.pc = "done"]
    ELSE IF AmbiguousTarget(h.opts)
         THEN [Did(h, c, ChannelOp("write", r, TRUE, 0))
                 EXCEPT !.pc = "sinkTail", !.i = 1, !.statusCode = 1, !.ok = FALSE]
         ELSE [Did(h, c, Event("startSCPSink", r, TRUE, <<>>)) EXCEPT !.pc = "inSink"]

\* From the goroutine's start to its first channel operation or engine call.
HandlerStart(r) ==
    /\ Running
    /\ hs[r].pc = "start"
    /\ LET p == reqs[r].payload
           s == Split(p.text).words
       IN IF ~p.prefix \/ s = <<>>
          THEN /\ crashed' = "handleRequest"
               /\ UNCHANGED <<hs, chans>>
          ELSE /\ UNCHANGED crashed
               /\ IF ~IsScp(s)
                  THEN /\ hs' = [hs EXCEPT ![r].pc = "rejTail", ![r].i = 1, ![r].ok = FALSE]
                       /\ UNCHANGED chans
                  ELSE LET opts == ParseTokens(Tail(s))
                       IN IF TakesSource(opts)
                          THEN /\ hs' = [hs EXCEPT ![r] =
                                           [Did(@, reqs[r].ch, Event("startSCPSource", r, TRUE, <<>>))
                                              EXCEPT !.pc = "inSource", !.opts = opts]]
                               /\ UNCHANGED chans
                          ELSE /\ hs' = [hs EXCEPT ![r] =
                                           SinkBegin([@ EXCEPT !.opts = opts], reqs[r].ch, r)]
                               /\ UNCHANGED chans
    /\ UNCHANGED <<oneShot, srvPc, conns, reqs, parseVars, eStatus>>

RejectStep(r) ==
    /\ Running
    /\ hs[r].pc = "rejTail"
    /\ LET ev == ChannelOp(RejectTail[hs[r].i], r, hs[r].ok, 0)
       IN /\ chans' = Counted(reqs[r].ch, ev)
          /\ hs' = [hs EXCEPT ![r] =
                      IF hs[r].i = Len(RejectTail)
                      THEN [Did(@, reqs[r].ch, ev) EXCEPT !.pc = "done"]
                      ELSE [Did(@, reqs[r].ch, ev) EXCEPT !.i = @ + 1]]
    /\ UNCHANGED <<oneShot, srvPc, conns, reqs, crashed, parseVars, eStatus>>

SourceReturn(r) ==
    /\ Running
    /\ hs[r].pc = "inSource"
    /\ \E res \in SourceResults :
         hs' = [hs EXCEPT ![r].pc = "srcReply", ![r].srcErr = res]
    /\ UNCHANGED <<oneShot, srvPc, conns, chans, reqs, crashed, parseVars, eStatus>>

SourceReply(r) ==
    /\ Running
    /\ hs[r].pc = "srcReply"
    /\ hs' = [hs EXCEPT ![r] =
                SinkBegin(Did(@, reqs[r].ch, ChannelOp("reply", r, hs[r].srcErr = "ok", 0)),
                          reqs[r].ch, r)]
    /\ UNCHANGED <<oneShot, srvPc, conns, chans, reqs, crashed, parseVars, eStatus>>

SinkReturn(r) ==
    /\ Running
    /\ hs[r].pc = "inSink"
    /\ \E res \in SinkResults :
         hs' = [hs EXCEPT ![r].pc = "sinkTail", ![r].i = 1, ![r].sinkErr = res]
    /\ UNCHANGED <<oneShot, srvPc, conns, chans, reqs, crashed, parseVars, eStatus>>

SinkStep(r) ==
    /\ Running
    /\ hs[r].pc = "sinkTail"
    /\ LET ev == ChannelOp(SinkTail[hs[r].i], r, hs[r].ok, hs[r].statusCode)
       IN /\ chans' = Counted(reqs[r].ch, ev)
          /\ hs' = [hs EXCEPT ![r] =
                      IF hs[r].i = Len(SinkTail)
                      THEN [Did(@, reqs[r].ch, ev) EXCEPT !.pc = "done"]
                      ELSE [Did(@, reqs[r].ch, ev) EXCEPT !.i = @ + 1]]
    /\ UNCHANGED <<oneShot, srvPc, conns, reqs, crashed, parseVars, eStatus>>

(***************************************************************************)
(* The server                                                              *)
(***************************************************************************)
ParseIdle ==
    /\ pTokens = <<>>
    /\ pIdx = 0
    /\ pState = ParseInit

ExitIdle == eStatus = 0

Init ==
    /\ oneShot \in BOOLEAN
    /\ srvPc = "accept"
    /\ conns = <<>>
    /\ chans = <<>>
    /\ reqs = <<>>
    /\ hs = <<>>
    /\ crashed = "no"
    /\ ParseIdle
    /\ ExitIdle

Next ==
    \/ Accept
    \/ \E k \in 1..Len(conns) : Handshake(k)
    \/ \E k \in 1..Len(conns) : DispatchChannel(k)
    \/ \E k \in 1..Len(conns) : CloseConn(k)
    \/ \E k \in 1..Len(conns) : HandleConnReturn(k)
    \/ \E c \in 1..Len(chans) : HandleNewChannel(c)
    \/ \E c \in 1..Len(chans) : RouteExec(c)
    \/ \E c \in 1..Len(chans) : RouteShell(c)
    \/ \E c \in 1..Len(chans) : RouteEnv(c)
    \/ \E c \in 1..Len(chans) : RouteSubsystem(c)
    \/ \E c \in 1..Len(chans) : RouteOther(c)
    \/ \E c \in 1..Len(chans) : RouterExit(c)
    \/ \E c \in 1..Len(chans) : SftpNewServer(c)
    \/ \E c \in 1..Len(chans) : SftpServe(c)
    \/ \E c \in 1..Len(chans) : SftpTailStep(c)
    \/ \E c \in 1..Len(chans) : SftpReply(c)
    \/ \E r \in 1..Len(hs) : HandlerStart(r)
    \/ \E r \in 1..Len(hs) : RejectStep(r)
    \/ \E r \in 1..Len(hs) : SourceReturn(r)
    \/ \E r \in 1..Len(hs) : SourceReply(r)
    \/ \E r \in 1..Len(hs) : SinkReturn(r)
    \/ \E r \in 1..Len(hs) : SinkStep(r)

Spec == Init /\ [][Next]_vars

(***************************************************************************)
(* One accepted session channel: its router and its exec handlers          *)
(***************************************************************************)
\* The server right after handleNewChannel has accepted the first session
\* channel of the first connection.
InitChannel ==
    /\ oneShot = FALSE
    /\ srvPc = "accept"
    /\ conns = <<[st |-> "serving", closed |-> FALSE]>>
    /\ chans = <<[conn |-> 1, type |-> "session", st |-> "open",
                  log |-> <<>>, cur |-> 0, status |-> 0, nExit |-> 0, nClose |-> 0]>>
    /\ reqs = <<>>
    /\ hs = <<>>
    /\ crashed = "no"
    /\ ParseIdle
    /\ ExitIdle

NextChannel ==
    \/ \E c \in 1..Len(chans) : RouteExec(c)
    \/ \E c \in 1..Len(chans) : RouteShell(c)
    \/ \E c \in 1..Len(chans) : RouteEnv(c)
    \/ \E c \in 1..Len(chans) : RouteSubsystem(c)
    \/ \E c \in 1..Len(chans) : RouteOther(c)
    \/ \E c \in 1..Len(chans) : SftpNewServer(c)
    \/ \E c \in 1..Len(chans) : SftpServe(c)
    \/ \E c \in 1..Len(chans) : SftpTailStep(c)
    \/ \E c \in 1..Len(chans) : SftpReply(c)
    \/ \E r \in 1..Len(hs) : HandlerStart(r)
    \/ \E r \in 1..Len(hs) : RejectStep(r)
    \/ \E r \in 1..Len(hs) : SourceReturn(r)
    \/ \E r \in 1..Len(hs) : SourceReply(r)
    \/ \E r \in 1..Len(hs) : SinkReturn(r)
    \/ \E r \in 1..Len(hs) : SinkStep(r)

SpecChannel == InitChannel /\ [][NextChannel]_vars

(***************************************************************************)
(* sendExitStatusCode on its own, once on an open channel, for every       *)
(* value of its status argument                                            *)
(***************************************************************************)
SendExitStatusCode(c) ==
    /\ Running
    /\ chans[c].st = "open"
    /\ chans[c].log = <<>>
    /\ chans' = Logged(c, ChannelOp("exit", 0, TRUE, eStatus))
    /\ UNCHANGED <<oneShot, srvPc, conns, reqs, hs, crashed, parseVars, eStatus>>

InitExit ==
    /\ oneShot = FALSE
    /\ srvPc = "accept"
    /\ conns = <<[st |-> "serving", closed |-> FALSE]>>
    /\ chans = <<[conn |-> 1, type |-> "session", st |-> "open",
                  log |-> <<>>, cur |-> 0, status |-> 0, nExit |-> 0, nClose |-> 0]>>
    /\ reqs = <<>>
    /\ hs = <<>>
    /\ crashed = "no"
    /\ ParseIdle
    /\ eStatus \in 0..MaxStatus

NextExit == \E c \in 1..Len(chans) : SendExitStatusCode(c)

SpecExit == InitExit /\ [][NextExit]_vars

(***************************************************************************)
(* Properties                                                              *)
(***************************************************************************)
\* Position of the first "--" in toks, 0 when there is none.
FirstDashes(toks) ==
    IF \E i \in 1..Len(toks) : toks[i] = "--"
    THEN CHOOSE i \in 1..Len(toks) : toks[i] = "--" /\ \A j \in 1..(i - 1) : toks[j] # "--"
    ELSE 0

AfterDashes(toks) ==
    IF FirstDashes(toks) = 0 THEN <<>> ELSE SubSeq(toks, FirstDashes(toks) + 1, Len(toks))

IsSuffix(suf, s) ==
    /\ Len(suf) <= Len(s)
    /\ SubSeq(s, Len(s) - Len(suf) + 1, Len(s)) = suf

\* C1: once the parser has consumed all tokens, the tokens that followed the
\* first "--" are, in order, the tail of the file-name list.
C1_AfterDashesAreFileNames ==
    ParseDone => IsSuffix(AfterDashes(pTokens), pState.opts.fileNames)

Has(log, op) == \E i \in DOMAIN log : log[i].op = op
Words(r) == Split(reqs[r].payload.text).words
ExecReqs == {r \in 1..Len(reqs) : reqs[r].type = "exec"}
\* Exec requests whose command line has a first token.
Tokenized == {r \in ExecReqs : reqs[r].payload.prefix /\ Words(r) # <<>>}
ScpReqs == {r \in Tokenized : Words(r)[1] = "scp"}
NonScpReqs == {r \in Tokenized : Words(r)[1] # "scp"}
Started(r) == hs[r].pc \notin {"none", "start"}
ExitStatus(ev) == ev.data[4]

\* C2: an exit status sent by a handler is 0 exactly when the engine it ran
\* (here the sink) ended cleanly, and one sent after the sftp server is 0
\* exactly when Serve ended cleanly or with end-of-stream.
C2_ExitZeroIffClean ==
    /\ \A r \in ExecReqs : \A i \in DOMAIN hs[r].log :
         hs[r].log[i].op = "exit" =>
             (ExitStatus(hs[r].log[i]) = 0 <=> hs[r].sinkErr = "ok")
    /\ \A c \in 1..Len(chans) : \A i \in DOMAIN chans[c].log :
         chans[c].log[i].op = "exit" =>
             (ExitStatus(chans[c].log[i]) = 0 <=>
                 chans[c].log[i - 1].data \in {<<"nil">>, <<"EOF">>})

\* C3: Close is called at most once on every channel.
C3_CloseAtMostOnce == \A c \in 1..Len(chans) : chans[c].nClose <= 1

\* C4 as stated: every Close of a channel, on every path, comes after an exit
\* status was sent on that channel.
C4_ExitBeforeEveryClose ==
    /\ \A r \in ExecReqs : \A i \in DOMAIN hs[r].log :
         hs[r].log[i].op = "close" => hs[r].log[i].afterExit
    /\ \A c \in 1..Len(chans) : \A i \in DOMAIN chans[c].log :
         chans[c].log[i].op = "close" => chans[c].log[i].afterExit

\* C4 as amended: a Close on the sink-completion, ambiguous-target or
\* sftp-completion path comes after an exit status sent on that channel by the
\* same handler.
C4_ExitBeforeCloseOnTransferPaths ==
    /\ \A r \in ScpReqs : \A i \in DOMAIN hs[r].log :
         hs[r].log[i].op = "close" =>
             /\ hs[r].log[i].afterExit
             /\ \E j \in 1..(i - 1) : hs[r].log[j].op = "exit"
    /\ \A c \in 1..Len(chans) : \A i \in DOMAIN chans[c].log :
         chans[c].log[i].op = "close" =>
             /\ chans[c].log[i].afterExit
             /\ i > 1
             /\ chans[c].log[i - 1].op = "exit"
             /\ chans[c].log[i - 1].by = chans[c].log[i].by

C4_Witness ==
    /\ \E r \in ScpReqs : Has(hs[r].log, "close") /\ hs[r].sinkErr # "none"
    /\ \E c \in 1..Len(chans) : Has(chans[c].log, "close")

\* C5: a handler of an scp command whose engine call has returned and that has
\* finished has sent an exit status and a reply.
C5_ExitAndReplyAfterEngine ==
    \A r \in ScpReqs :
        (hs[r].pc = "done" /\ (hs[r].srcErr # "none" \/ hs[r].sinkErr # "none")) =>
            Has(hs[r].log, "exit") /\ Has(hs[r].log, "reply")

\* C6: a handler with -t and a file-name list of length 0 or more than 1 never
\* calls startSCPSink and, once finished, has sent exit status 1, replied
\* false and closed the channel.
C6_AmbiguousTargetFails ==
    \A r \in ExecReqs :
        (Started(r) /\ hs[r].opts.To /\ Len(hs[r].opts.fileNames) # 1) =>
            /\ ~Has(hs[r].log, "startSCPSink")
            /\ hs[r].pc # "inSink"
            /\ \A i \in DOMAIN hs[r].log :
                 hs[r].log[i].op = "exit" => ExitStatus(hs[r].log[i]) = 1
            /\ hs[r].pc = "done" =>
                 /\ \E i \in DOMAIN hs[r].log :
                      hs[r].log[i].op = "exit" /\ hs[r].log[i].data = <<0, 0, 0, 1>>
                 /\ \E i \in DOMAIN hs[r].log :
                      hs[r].log[i].op = "reply" /\ ~hs[r].log[i].ok
                 /\ Has(hs[r].log, "close")

C6_Witness ==
    /\ \E r \in ExecReqs :
         /\ hs[r].pc = "done" /\ hs[r].opts.To /\ hs[r].opts.fileNames = <<>>
         /\ Has(hs[r].log, "close")
    /\ \E r \in ExecReqs :
         /\ hs[r].pc = "done" /\ hs[r].opts.To /\ Len(hs[r].opts.fileNames) > 1
         /\ Has(hs[r].log, "close")

\* C7: a handler of a command whose first token is not "scp" calls neither
\* engine, replies only false and, once finished, has replied false and
\* closed the channel.
C7_NonScpRejected ==
    \A r \in NonScpReqs :
        /\ hs[r].pc \notin {"inSource", "srcReply", "inSink", "sinkTail"}
        /\ ~Has(hs[r].log, "startSCPSource")
        /\ ~Has(hs[r].log, "startSCPSink")
        /\ \A i \in DOMAIN hs[r].log : hs[r].log[i].op = "reply" => ~hs[r].log[i].ok
        /\ hs[r].pc = "done" => Has(hs[r].log, "reply") /\ Has(hs[r].log, "close")

C7_Witness ==
    \E r \in NonScpReqs :
        /\ hs[r].pc = "done"
        /\ \E i \in 2..Len(Words(r)) : Words(r)[i] = "-t"

\* C8: a handler whose command has neither -f nor -t, or both, starts neither
\* the source nor the sink; no handler starts both.
C8_NeitherOrBothRunsNothing ==
    \A r \in ScpReqs :
        /\ (Started(r) /\ hs[r].opts.From = hs[r].opts.To) =>
              ~Has(hs[r].log, "startSCPSource") /\ ~Has(hs[r].log, "startSCPSink")
        /\ ~(Has(hs[r].log, "startSCPSource") /\ Has(hs[r].log, "startSCPSink"))

\* C9: no exec request makes handleRequest panic.
C9_HandleRequestNeverPanics == crashed # "handleRequest"

\* C10: in one-shot mode, when startServer has left its accept loop, one
\* connection was accepted and every channel handler and exec handler of it
\* has finished.
C10_OneShotHandlesFully ==
    (oneShot /\ srvPc = "stopped") =>
        /\ Len(conns) = 1
        /\ \A c \in 1..Len(chans) : chans[c].st \in {"rejected", "routerDone"}
        /\ \A r \in 1..Len(hs) : hs[r].pc \in {"none", "done"}

Range(q) == {q[i] : i \in DOMAIN q}
\* The tokens in front of the first "--", all of them when there is none.
BeforeDashes(toks) ==
    IF FirstDashes(toks) = 0 THEN toks ELSE SubSeq(toks, 1, FirstDashes(toks) - 1)
FlagValues(opts) ==
    <<opts.From, opts.To, opts.TargetIsDir, opts.PreserveMode, opts.Recursive>>
FlagsOnly(toks) == Range(toks) \subseteq Flags

\* C11: after the loop each of From, To, TargetIsDir, PreserveMode, Recursive
\* is true exactly when its flag occurs in front of the first "--" (-v sets
\* nothing, a flag behind "--" sets nothing), and every sequence of flag
\* tokens with the same set of tokens gives the same five values.
C11_FlagsExactlyThoseGiven ==
    ParseDone =>
        /\ LET given == Range(BeforeDashes(pTokens))
           IN FlagValues(pState.opts) =
                  <<"-f" \in given, "-t" \in given, "-d" \in given,
                    "-p" \in given, "-r" \in given>>
        /\ FlagsOnly(pTokens) =>
             \A q \in SeqsUpTo(Flags, MaxTokens) :
                 Range(q) = Range(pTokens) =>
                     FlagValues(ParseTokens(q)) = FlagValues(pState.opts)

C11_Witness ==
    /\ ParseDone
    /\ FirstDashes(pTokens) = 2
    /\ pTokens[1] = "-p"
    /\ Len(pTokens) = 3
    /\ pTokens[3] = "-r"
    /\ pState.opts.PreserveMode
    /\ ~pState.opts.Recursive

IsSftpReq(r) ==
    /\ reqs[r].type = "subsystem"
    /\ reqs[r].payload.prefix
    /\ reqs[r].payload.text = "sftp"
\* The operations of the router of channel c, by position, made for request r.
RouterOps(c, r, op) ==
    {i \in DOMAIN chans[c].log : chans[c].log[i].op = op /\ chans[c].log[i].by = r}

\* C12: once handleSFTP has returned for an sftp subsystem request (the router
\* has replied to it), exactly one exit status was sent for it: 0 if Serve
\* ended cleanly or with end-of-stream, 1 in every other case, a server that
\* failed to start included.
C12_SftpSendsOneExitStatus ==
    \A r \in 1..Len(reqs) :
        (IsSftpReq(r) /\ RouterOps(reqs[r].ch, r, "reply") # {}) =>
            LET c == reqs[r].ch
                clean == \E i \in RouterOps(c, r, "served") :
                             chans[c].log[i].data \in {<<"nil">>, <<"EOF">>}
            IN /\ Cardinality(RouterOps(c, r, "exit")) = 1
               /\ \A i \in RouterOps(c, r, "exit") :
                    ExitStatus(chans[c].log[i]) = IF clean THEN 0 ELSE 1

Blocked(r) == hs[r].pc \in {"inSource", "inSink"}
InSftp(c) == chans[c].st \in {"sftpNew", "sftpServe", "sftpTail1", "sftpTail2", "sftpReply"}
\* The client of channel c can still send a request the model has room for.
CanSend(c) == ~conns[chans[c].conn].closed /\ Len(reqs) < MaxRequests

\* C13: while an exec handler is blocked in startSCPSource or startSCPSink,
\* the router of its channel, when it waits for a request, can take and answer
\* an env request and can start another exec handler, and the router of every
\* other channel of the connection can take its next step.
C13_BlockedHandlerSerializesNothing ==
    \A r \in ExecReqs :
        (Running /\ Blocked(r)) =>
            \A c \in 1..Len(chans) :
                chans[c].conn = chans[reqs[r].ch].conn =>
                    /\ (chans[c].st = "open" /\ CanSend(c)) =>
                           ENABLED RouteEnv(c) /\ ENABLED RouteExec(c)
                    /\ chans[c].st = "spawned" => ENABLED HandleNewChannel(c)
                    /\ InSftp(c) =>
                           ENABLED (\/ SftpNewServer(c) \/ SftpServe(c)
                                    \/ SftpTailStep(c) \/ SftpReply(c))

C13_Witness ==
    \E r \in ExecReqs :
        /\ Blocked(r)
        /\ \E r2 \in (r + 1)..Len(reqs) :
             /\ reqs[r2].ch = reqs[r].ch
             /\ reqs[r2].type = "env"
             /\ RouterOps(reqs[r2].ch, r2, "reply") # {}
        /\ \E c \in 1..Len(chans) : c # reqs[r].ch /\ chans[c].st = "open"

ShellReqs == {r \in 1..Len(reqs) : reqs[r].type = "shell"}

\* C14: a shell request gets exactly one reply, false, whatever came before it
\* on the channel; no handleRequest, no engine and no sftp server is started
\* for it and no exit status is sent for it.
C14_ShellAlwaysRefused ==
    \A r \in ShellReqs :
        LET c == reqs[r].ch
        IN /\ Cardinality(RouterOps(c, r, "reply")) = 1
           /\ \A i \in RouterOps(c, r, "reply") : ~chans[c].log[i].ok
           /\ hs[r] = NoHandler
           /\ chans[c].cur # r
           /\ RouterOps(c, r, "served") = {}
           /\ RouterOps(c, r, "exit") = {}
           /\ RouterOps(c, r, "close") = {}

\* A shell request refused on a channel the server had already closed.
C14_Witness ==
    \E r \in ShellReqs :
        /\ r > 1
        /\ \E i \in RouterOps(reqs[r].ch, r, "reply") :
             ~chans[reqs[r].ch].log[i].ok /\ chans[reqs[r].ch].log[i].afterClose

\* A request the router only acknowledges: env, a subsystem with a name other
\* than "sftp", or a type that no case of the switch names.
Acknowledged(q) ==
    \/ q.type = "env"
    \/ q.type = "subsystem" /\ q.payload.prefix /\ q.payload.text # "sftp"
    \/ q.type \notin {"exec", "shell", "env", "subsystem"}

\* C15: the step that receives an env request, a subsystem request with a name
\* other than "sftp" or a request of an unrecognised type adds exactly one
\* reply, true, to the channel and changes nothing else (no exit status, no
\* close, no handler, no sftp server); no later step does anything for that
\* request.
C15_AcknowledgedOnly ==
    [][\A r \in 1..Len(reqs') :
          Acknowledged(reqs'[r]) =>
              LET c == reqs'[r].ch
              IN IF r > Len(reqs)
                 THEN /\ Len(chans'[c].log) = Len(chans[c].log) + 1
                      /\ SubSeq(chans'[c].log, 1, Len(chans[c].log)) = chans[c].log
                      /\ LET ev == chans'[c].log[Len(chans'[c].log)]
                         IN ev.op = "reply" /\ ev.by = r /\ ev.ok
                      /\ [chans' EXCEPT ![c].log = chans[c].log] = chans
                      /\ hs' = Append(hs, NoHandler)
                      /\ UNCHANGED <<oneShot, srvPc, conns, crashed>>
                 ELSE /\ hs'[r] = NoHandler
                      /\ chans'[c].cur # r
                      /\ \A i \in DOMAIN chans'[c].log :
                           chans'[c].log[i].by = r => i \in DOMAIN chans[c].log
      ]_vars

\* A subsystem request with another name and a request of an unrecognised type,
\* both acknowledged on the same channel.
C15_Witness ==
    \E r1, r2 \in 1..Len(reqs) :
        /\ reqs[r1].ch = reqs[r2].ch
        /\ reqs[r1].type = "subsystem" /\ Acknowledged(reqs[r1])
        /\ reqs[r2].type \in OtherTypes
        /\ \A r \in {r1, r2} :
             \E i \in RouterOps(reqs[r].ch, r, "reply") : chans[reqs[r].ch].log[i].ok

ReqsOn(c) == {r \in 1..Len(reqs) : reqs[r].ch = c}

\* C16: a channel whose type is not "session" is only ever waiting for
\* handleNewChannel or rejected: no request of it is received, nothing is sent
\* on it and no handler exists for it; a "session" channel is never rejected,
\* and requests are received on a channel only by that channel's own router.
C16_OnlySessionAccepted ==
    \A c \in 1..Len(chans) :
        /\ chans[c].type # "session" =>
             /\ chans[c].st \in {"spawned", "rejected"}
             /\ chans[c].log = <<>> /\ chans[c].cur = 0
             /\ chans[c].nExit = 0 /\ chans[c].nClose = 0
             /\ ReqsOn(c) = {}
        /\ chans[c].type = "session" => chans[c].st # "rejected"
        /\ ReqsOn(c) # {} =>
             /\ chans[c].type = "session"
             /\ chans[c].st \notin {"spawned", "rejected"}
             /\ \A i \in DOMAIN chans[c].log : chans[c].log[i].by \in ReqsOn(c)

\* One channel rejected while a session channel of the same connection has
\* had a request answered by its router.
C16_Witness ==
    \E c1, c2 \in 1..Len(chans) :
        /\ chans[c1].conn = chans[c2].conn
        /\ chans[c1].type # "session" /\ chans[c1].st = "rejected"
        /\ chans[c2].type = "session"
        /\ \E r \in ReqsOn(c2) : RouterOps(c2, r, "reply") # {}

\* The bytes b, most significant first, read as one unsigned integer.
BigEndian32(b) == b[1] * 2^24 + b[2] * 2^16 + b[3] * 2^8 + b[4]

ExitRequests(c) == {i \in DOMAIN chans[c].log : chans[c].log[i].op = "exit"}

\* C17: the exit-status request sendExitStatusCode sends for a status in 0..255
\* carries exactly 4 bytes, the first three 0 and the last the status, so that
\* the payload read as a big-endian 32-bit integer is the status.
C17_ExitStatusBigEndian ==
    \A c \in 1..Len(chans) :
        \A i \in ExitRequests(c) :
            LET b == chans[c].log[i].data
            IN /\ Len(b) = 4
               /\ \A j \in 1..4 : b[j] \in 0..MaxStatus
               /\ b[1] = 0 /\ b[2] = 0 /\ b[3] = 0 /\ b[4] = eStatus
               /\ BigEndian32(b) = eStatus

\* The largest status sent.
C17_Witness ==
    /\ eStatus = MaxStatus
    /\ \E c \in 1..Len(chans) :
         \E i \in ExitRequests(c) : BigEndian32(chans[c].log[i].data) = MaxStatus

IsFileName(t) == t \notin Flags

\* C18: when the tokens after "scp" hold no "--", the file names of the parsed
\* options are the tokens that are not one of -f -t -d -p -r -v, in their
\* original order and with duplicates kept.
C18_FileNamesAreNonFlagTokens ==
    (ParseDone /\ FirstDashes(pTokens) = 0) =>
        pState.opts.fileNames = SelectSeq(pTokens, IsFileName)

\* The same name twice around a flag: both occurrences are kept, in order.
C18_Witness ==
    /\ ParseDone
    /\ pTokens = <<"a", "-v", "a">>
    /\ pState.opts.fileNames = <<"a", "a">>

\* The Reply calls made on request r: by its handleRequest and by the router.
HandlerReplies(r) == {i \in DOMAIN hs[r].log : hs[r].log[i].op = "reply"}
Replies(r) == Cardinality(HandlerReplies(r)) + Cardinality(RouterOps(reqs[r].ch, r, "reply"))

\* C19: no request is replied to more than once.
C19_RepliedAtMostOnce ==
    \A r \in 1..Len(reqs) : Replies(r) <= 1

\* The server never calls Reply on a request after a Close it made on that
\* request's channel.
NoReplyAfterClose(log) ==
    \A i \in DOMAIN log : log[i].op = "reply" => ~log[i].afterClose

\* C20: every reply to a request is sent before the server closes the channel
\* the request arrived on (sink, ambiguous target and sftp paths included).
C20_ReplyBeforeClose ==
    /\ \A r \in 1..Len(reqs) : NoReplyAfterClose(hs[r].log)
    /\ \A c \in 1..Len(chans) : NoReplyAfterClose(chans[c].log)

====
